---- MODULE Spec2Model ----
(***************************************************************************)
(* A model of app.py, the NBA shooting dashboard: the retry wrapper, the   *)
(* season resolver, the cached loaders driven by the script's reruns, the  *)
(* per-player zone aggregation and the FG% colour bands.                   *)
(*                                                                         *)
(* Numbers: sleeps and ages are naturals (seconds); the numbers of the     *)
(* data frames are exact quotients <<n, d>>, compared by                   *)
(* cross-multiplication, and NaN is <<>>; Python's None is "None".         *)
(***************************************************************************)
EXTENDS Integers, Sequences, FiniteSets, TLC

VARIABLES
    \* ---- with_retry: its arguments, its locals and what it did ----
    rpc,        \* "idle", "loop" (inside the for), "returned", "raised"
    tries,      \* argument tries
    base_sleep, \* argument base_sleep
    i,          \* the loop variable
    last_err,   \* the local last_err ("None" before any failure)
    ret,        \* the value returned            ("None" while there is none)
    raised,     \* the error raised to the caller ("None" while there is none)
    calls,      \* how many times fn has been invoked
    sleeps,     \* the durations passed to time.sleep, in order
    log,        \* what fn did on each attempt: [ok |-> .., v |-> ..]
    \* ---- season_str_from_year applied to one start year ----
    fyear,      \* the start year
    fout,       \* the string produced ("" before the call)
    \* ---- the script, rerun by Streamlit on every interaction ----
    today,        \* dt.date.today(): [year |-> .., month |-> ..]
    pc,           \* where the script is
    clicked,      \* st.button("Refresh now") is True in this run
    TARGET_SEASON,\* the module-level TARGET_SEASON ("None" until assigned)
    cands,        \* safe_detect_latest_season: the list being iterated
    ci,           \* .. the position in it (1-based; 0 outside the loop)
    probed,       \* .. the probes made by this call: [s |-> .., res |-> ..]
    detRaised,    \* .. TRUE when the call let an exception out
    seasonCache,  \* st.cache_data of safe_detect_latest_season
    cache,        \* st.cache_data of load_main_stats and of load_shot_data
    net,          \* the upstream request made by the last step, or "none"
    served,       \* how the last loader request was answered
    \* ---- the data transforms, each applied to one input ----
    kind,         \* which one: "zones", "stats", "color" ("none": not used)
    shots_all,    \* get_zones_for_player: the wide table as load_shot_data returns it
    player_name,  \* .. the player asked for
    zout,         \* .. [state |-> "pending" | "returned" | "raised", frame |-> rows]
    raw_stats,    \* load_main_stats: the row of totals the upstream sent
    sout,         \* .. [state |-> .., row |-> the row returned]
    cval,         \* fg_color: the argument
    cout          \* .. the style returned ("pending" before the call)

retryVars == <<rpc, tries, base_sleep, i, last_err, ret, raised, calls, sleeps, log>>
fmtVars   == <<fyear, fout>>
appVars   == <<today, pc, clicked, TARGET_SEASON, cands, ci, probed, detRaised,
               seasonCache, cache, net, served>>
dataVars  == <<kind, shots_all, player_name, zout, raw_stats, sout, cval, cout>>
vars      == <<retryVars, fmtVars, appVars, dataVars>>

(***************************************************************************)
(* Bounds of the model                                                     *)
(***************************************************************************)
MaxTries == 3       \* with_retry is run with tries in 1..MaxTries
MaxBase  == 2       \* and base_sleep in 1..MaxBase
NumVals  == 2       \* distinct results fn can return / errors it can raise
FirstYear == 1995   \* season_str_from_year is applied to FirstYear ..
YearSpan  == 110    \* .. FirstYear + YearSpan

Vals == {"r" \o ToString(k) : k \in 1..NumVals}   \* what fn can return
Errs == {"e" \o ToString(k) : k \in 1..NumVals}   \* what fn can raise

(***************************************************************************)
(* Python's str() of a natural and slicing, on sequences of digits         *)
(***************************************************************************)
DigitChar(d) == <<"0", "1", "2", "3", "4", "5", "6", "7", "8", "9">>[d + 1]

RECURSIVE Digits(_)
\* the decimal digits of n >= 0, most significant first: str(n) as a list
Digits(n) == IF n < 10 THEN <<n>> ELSE Append(Digits(n \div 10), n % 10)

RECURSIVE Join(_)
\* the string made of the digits ds
Join(ds) == IF ds = <<>> THEN "" ELSE DigitChar(Head(ds)) \o Join(Tail(ds))

\* s[-n:] : the last n elements of s, all of s when it is shorter
LastN(s, n) == IF Len(s) <= n THEN s ELSE SubSeq(s, Len(s) - n + 1, Len(s))

\* mutant of season_str_from_year: the suffix is taken from the start year
season_str_same_year(start_year) ==
    Join(Digits(start_year)) \o "-" \o Join(LastN(Digits(start_year), 2))

\* f"{start_year}-{str(start_year + 1)[-2:]}"
season_str_from_year(start_year) ==
    Join(Digits(start_year)) \o "-" \o Join(LastN(Digits(start_year + 1), 2))

(***************************************************************************)
(* with_retry(fn, tries, base_sleep)                                       *)
(***************************************************************************)
\* mutant of Backoff: the same delay after every failure
BackoffConstant(b, k) == b

\* time.sleep(base_sleep * (i + 1)), k the loop variable
Backoff(b, k) == b * (k + 1)

\* mutant of LoopDone: one attempt too many
LoopDoneLate(k, n) == k >= n + 1

\* for i in range(tries): the loop is over when i reaches tries
LoopDone(k, n) == k >= n

\* last_err = e
RememberError(old, e) == e

RetryIdle ==
    /\ rpc = "idle" /\ tries = 0 /\ base_sleep = 0 /\ i = 0
    /\ last_err = "None" /\ ret = "None" /\ raised = "None"
    /\ calls = 0 /\ sleeps = <<>> /\ log = <<>>

\* the call with_retry(fn, n, b): last_err = None, the loop starts
RetryEnter(n, b) ==
    /\ rpc' = "loop" /\ tries' = n /\ base_sleep' = b /\ i' = 0
    /\ last_err' = "None" /\ ret' = "None" /\ raised' = "None"
    /\ calls' = 0 /\ sleeps' = <<>> /\ log' = <<>>

\* the locals of with_retry die when its caller has taken the outcome
RetryLeave ==
    /\ rpc' = "idle" /\ tries' = 0 /\ base_sleep' = 0 /\ i' = 0
    /\ last_err' = "None" /\ ret' = "None" /\ raised' = "None"
    /\ calls' = 0 /\ sleeps' = <<>> /\ log' = <<>>

\* return fn(), fn returning v
RetryCallOk(v) ==
    /\ rpc = "loop" /\ ~LoopDone(i, tries)
    /\ calls' = calls + 1
    /\ log' = Append(log, [ok |-> TRUE, v |-> v])
    /\ ret' = v
    /\ rpc' = "returned"
    /\ UNCHANGED <<tries, base_sleep, i, last_err, raised, sleeps>>

\* fn() raises e: last_err = e, sleep, next iteration
RetryCallFail(e) ==
    /\ rpc = "loop" /\ ~LoopDone(i, tries)
    /\ calls' = calls + 1
    /\ log' = Append(log, [ok |-> FALSE, v |-> e])
    /\ last_err' = RememberError(last_err, e)
    /\ sleeps' = Append(sleeps, Backoff(base_sleep, i))
    /\ i' = i + 1
    /\ UNCHANGED <<rpc, tries, base_sleep, ret, raised>>

\* raise last_err, after the loop
RetryRaise ==
    /\ rpc = "loop" /\ LoopDone(i, tries)
    /\ raised' = last_err
    /\ rpc' = "raised"
    /\ UNCHANGED <<tries, base_sleep, i, last_err, ret, calls, sleeps, log>>

(***************************************************************************)
(* The season resolver                                                     *)
(***************************************************************************)
DEFAULT_FALLBACK_SEASON == "2025-26"

Lookback == 8       \* n_back: int = 8

\* the result of one probe: the frame has rows, has no row, is None,
\* or the request raised
ProbeResults == {"rows", "empty", "none", "raise"}

\* start_year = today.year if today.month >= 10 else today.year - 1
StartYear(d) == IF d.month >= 10 THEN d.year ELSE d.year - 1

\* mutant of candidate_seasons_latest_first: oldest first
candidate_seasons_oldest_first(d, n_back) ==
    [k \in 1..n_back |-> season_str_from_year(StartYear(d) - (n_back - k))]

\* [season_str_from_year(start_year - i) for i in range(n_back)]
candidate_seasons_latest_first(d, n_back) ==
    [k \in 1..n_back |-> season_str_from_year(StartYear(d) - (k - 1))]

\* mutant of ProbeHandler: the exception of a probe is not caught
ProbeHandlerNone(res) == IF res = "raise" THEN "propagate" ELSE "continue"

\* what the body of the for does with a probe that did not return s:
\* "except Exception: continue", and falling out of the if
ProbeHandler(res) == "continue"

\* if df is not None and len(df) > 0: return s
ProbeReturns(res) == res = "rows"

(***************************************************************************)
(* st.cache_data(ttl=60 * 30): one entry per argument tuple, with its age  *)
(***************************************************************************)
TTL == 1800         \* seconds

Loaders == {"main", "shot"}

NoEntry == [v |-> "None", age |-> TTL]

\* mutant of Fresh: the entry is dropped after a third of the window
FreshShort(e) == e.v # "None" /\ 3 * e.age < TTL

\* an entry is served while its age is below the ttl
Fresh(e) == e.v # "None" /\ e.age < TTL

\* the entry of loader f for season s
Entry(f, s) == IF s \in DOMAIN cache[f] THEN cache[f][s] ELSE NoEntry

\* c with the value v stored under the key s, now
Store(c, s, v) ==
    [k \in DOMAIN c \cup {s} |-> IF k = s THEN [v |-> v, age |-> 0] ELSE c[k]]

\* every entry d seconds older; an entry past the ttl is gone
Aged(c, d) ==
    LET keep == {k \in DOMAIN c : c[k].age + d < TTL}
    IN  [k \in keep |-> [c[k] EXCEPT !.age = @ + d]]

AgedEntry(e, d) == IF e.v # "None" /\ e.age + d < TTL
                   THEN [e EXCEPT !.age = @ + d] ELSE NoEntry

EmptyCache == [f \in Loaders |-> <<>>]

\* st.cache_data.clear()
ClearedCache(c) == EmptyCache

(***************************************************************************)
(* Numbers of the data frames: a number is the exact quotient <<n, d>>,    *)
(* d > 0; NaN is <<>>; a cell that is text is <<"text">>                   *)
(***************************************************************************)
NaN == <<>>
Num(n) == <<n, 1>>
IsNaN(x) == Len(x) = 0
IsNum(x) == Len(x) = 2

\* pd.to_numeric(.., errors="coerce") of one cell
to_numeric(x) == IF IsNum(x) THEN x ELSE NaN

\* x > 0, False for NaN
Positive(x) == IsNum(x) /\ x[1] > 0

Add(x, y) == IF IsNaN(x) \/ IsNaN(y) THEN NaN
             ELSE <<x[1] * y[2] + y[1] * x[2], x[2] * y[2]>>
Mul(x, y) == IF IsNaN(x) \/ IsNaN(y) THEN NaN ELSE <<x[1] * y[1], x[2] * y[2]>>
\* x / y, used with y > 0 only
Div(x, y) == IF IsNaN(x) \/ IsNaN(y) THEN NaN ELSE <<x[1] * y[2], x[2] * y[1]>>

\* the same number
Same(x, y) == IF IsNaN(x) \/ IsNaN(y) THEN IsNaN(x) /\ IsNaN(y)
              ELSE x[1] * y[2] = y[1] * x[2]

\* mutant of GuardedRatio: no attempts give 0
GuardedRatioZero(makes, attempts) ==
    IF Positive(attempts) THEN Div(makes, attempts) ELSE Num(0)

\* np.where(attempts > 0, makes / attempts, np.nan), for one row
GuardedRatio(makes, attempts) ==
    IF Positive(attempts) THEN Div(makes, attempts) ELSE NaN

(***************************************************************************)
(* load_main_stats: the transform of one row of totals                     *)
(***************************************************************************)
NumCols == {"GP", "MIN", "FGM", "FGA", "FG3M", "FG3A", "FTM", "FTA", "PTS", "PLAYER_ID"}

\* lines 148-160 on one row r, a function from the column names to cells
main_stats_row(r) ==
    LET n == [c \in DOMAIN r |-> IF c \in NumCols THEN to_numeric(r[c]) ELSE r[c]]
    IN  [c \in DOMAIN r \cup {"FG_PCT", "FG3_PCT", "FT_PCT"} |->
            CASE c = "FG_PCT"  -> GuardedRatio(n["FGM"], n["FGA"])
              [] c = "FG3_PCT" -> GuardedRatio(n["FG3M"], n["FG3A"])
              [] c = "FT_PCT"  -> GuardedRatio(n["FTM"], n["FTA"])
              [] c = "PTS"     -> GuardedRatio(n["PTS"], n["GP"])
              [] c = "MIN"     -> GuardedRatio(n["MIN"], n["GP"])
              [] OTHER         -> n[c]]

(***************************************************************************)
(* get_zones_for_player                                                    *)
(* A column name is the sequence of its parts between underscores:         *)
(* "Backcourt_FG_PCT" is <<"Backcourt", "FG", "PCT">>.  A table is         *)
(* [columns |-> the names, rows |-> the rows], a row the sequence of its   *)
(* cells in column order.                                                  *)
(***************************************************************************)
PLAYER_NAME == <<"PLAYER", "NAME">>
SUFFIX_FG_PCT == <<"FG", "PCT">>
SUFFIX_FGM == <<"FGM">>
SUFFIX_FGA == <<"FGA">>

\* c.endswith("_" + suffix)
EndsWith(c, suffix) ==
    Len(c) > Len(suffix) /\ SubSeq(c, Len(c) - Len(suffix) + 1, Len(c)) = suffix

\* c.replace("_" + suffix, "") for a name that ends with it and holds it once
Stripped(c, suffix) == SubSeq(c, 1, Len(c) - Len(suffix))

IsShotCol(c) ==
    EndsWith(c, SUFFIX_FGM) \/ EndsWith(c, SUFFIX_FGA) \/ EndsWith(c, SUFFIX_FG_PCT)

\* lines 215-223
ZoneOf(c) ==
    IF EndsWith(c, SUFFIX_FG_PCT) THEN Stripped(c, SUFFIX_FG_PCT)
    ELSE IF EndsWith(c, SUFFIX_FGM) THEN Stripped(c, SUFFIX_FGM)
    ELSE Stripped(c, SUFFIX_FGA)

MetricOf(c) ==
    IF EndsWith(c, SUFFIX_FG_PCT) THEN "FG_PCT"
    ELSE IF EndsWith(c, SUFFIX_FGM) THEN "FGM"
    ELSE "FGA"

\* the zone labels of the model that hold the character 3
LabelsWith3 == {"Above the Break 3", "Left Corner 3"}

\* zp["zone"].str.contains("3")
Contains3(zone) == \E k \in 1..Len(zone) : zone[k] \in LabelsWith3

BACKCOURT == <<"Backcourt">>

\* the position of the record of zone z in recs, 0 when there is none
RecIndex(recs, z) ==
    IF \E k \in 1..Len(recs) : recs[k].zone = z
    THEN CHOOSE k \in 1..Len(recs) : recs[k].zone = z
    ELSE 0

\* lines 227-228: if metric in ["FGM", "FGA"] and pd.notna(val): rec[metric] += val
Accumulated(rec, metric, val) ==
    IF metric \in {"FGM", "FGA"} /\ ~IsNaN(val)
    THEN [rec EXCEPT ![metric] = Add(@, val)]
    ELSE rec

RECURSIVE ZoneRecords(_, _, _, _)
\* lines 211-228: the loop over shot_cols, from column j on; recs is
\* zone_records.values() in insertion order
ZoneRecords(recs, columns, row, j) ==
    IF j > Len(columns) THEN recs
    ELSE IF ~IsShotCol(columns[j]) THEN ZoneRecords(recs, columns, row, j + 1)
    ELSE LET zone == ZoneOf(columns[j])
             at == RecIndex(recs, zone)
             fresh == [zone |-> zone, FGM |-> Num(0), FGA |-> Num(0), FG_PCT |-> NaN]
             rec == IF at = 0 THEN fresh ELSE recs[at]
             upd == Accumulated(rec, MetricOf(columns[j]), row[j])
         IN  ZoneRecords(IF at = 0 THEN Append(recs, upd) ELSE [recs EXCEPT ![at] = upd],
                         columns, row, j + 1)

RECURSIVE SumOf(_, _)
\* zp[field].sum()
SumOf(recs, field) ==
    IF recs = <<>> THEN Num(0) ELSE Add(recs[1][field], SumOf(Tail(recs), field))

\* line 231: zp[zp["zone"] != "Backcourt"]
Retained(recs) == SelectSeq(recs, LAMBDA r : r.zone # BACKCOURT)

\* mutant of ShotShare: the share is taken of all the zones, Backcourt included
ShotShareOfAll(zp, all) ==
    LET total_fga == SumOf(all, "FGA")
    IN  [k \in 1..Len(zp) |-> GuardedRatio(zp[k].FGA, total_fga)]

\* lines 240-241, zp the retained records and all the records before line 231
ShotShare(zp, all) ==
    LET total_fga == SumOf(zp, "FGA")
    IN  [k \in 1..Len(zp) |->
            IF Positive(total_fga) THEN Div(zp[k].FGA, total_fga) ELSE NaN]

EmptyFrame == [state |-> "returned", frame |-> <<>>]

get_zones_for_player(name, table) ==
    IF ~\E j \in 1..Len(table.columns) : table.columns[j] = PLAYER_NAME
    THEN EmptyFrame
    ELSE
    LET nameCol == CHOOSE j \in 1..Len(table.columns) : table.columns[j] = PLAYER_NAME
        df == SelectSeq(table.rows, LAMBDA r : r[nameCol] = name)
    IN
    IF df = <<>> THEN EmptyFrame
    ELSE
    LET row == df[1]
        all == ZoneRecords(<<>>, table.columns, row, 1)
    IN
    \* a frame built from no record has no column: zp["zone"] raises KeyError
    IF all = <<>> THEN [state |-> "raised", frame |-> <<>>]
    ELSE
    LET zp == Retained(all)
        share == ShotShare(zp, all)
    IN  [state |-> "returned",
         frame |-> [k \in 1..Len(zp) |->
            LET pts_val == IF Contains3(zp[k].zone) THEN Num(3) ELSE Num(2)
                PTS == Mul(zp[k].FGM, pts_val)
            IN  [zone |-> zp[k].zone,
                 FGM |-> zp[k].FGM,
                 FGA |-> zp[k].FGA,
                 FG_PCT |-> GuardedRatio(zp[k].FGM, zp[k].FGA),
                 pts_val |-> pts_val,
                 PTS |-> PTS,
                 PTS_per_shot |-> GuardedRatio(PTS, zp[k].FGA),
                 ShotShare |-> share[k]]]]

(***************************************************************************)
(* fg_color                                                                *)
(***************************************************************************)
\* val < p / 100
Below(val, p) == val[1] * 100 < p * val[2]

\* lines 122-129
fg_color(val) ==
    IF IsNaN(val) THEN ""
    ELSE IF Below(val, 30) THEN "background-color: red"
    ELSE IF Below(val, 40) THEN "background-color: yellow"
    ELSE "background-color: green"

(***************************************************************************)
(* The data transforms, each applied once to an input of the model         *)
(***************************************************************************)
MaxStat == 2        \* makes and attempts are in 0..MaxStat
MaxDen == 10        \* fg_color is applied to n/d, d in 1..MaxDen, n in 0..d

\* the zone labels of the model, in the column order of the upstream
ZoneOrder == <<"Restricted Area", "Above the Break 3", "Backcourt">>

\* a cell of makes or attempts after load_shot_data: a number or NaN
StatCells == {Num(n) : n \in 0..MaxStat} \cup {NaN}

\* the FG_PCT the upstream sends beside makes m and attempts a: 0 when a is 0
UpstreamPct(m, a) == IF IsNum(m) /\ Positive(a) THEN Div(m, a) ELSE Num(0)

RECURSIVE ZoneCells(_, _, _)
\* the cells of the zones of present, in ZoneOrder from position k on
ZoneCells(present, st, k) ==
    IF k > Len(ZoneOrder) THEN <<>>
    ELSE IF ZoneOrder[k] \notin present THEN ZoneCells(present, st, k + 1)
    ELSE <<st[ZoneOrder[k]][1], st[ZoneOrder[k]][2],
           UpstreamPct(st[ZoneOrder[k]][1], st[ZoneOrder[k]][2])>>
         \o ZoneCells(present, st, k + 1)

RECURSIVE ZoneColumns(_, _)
ZoneColumns(present, k) ==
    IF k > Len(ZoneOrder) THEN <<>>
    ELSE IF ZoneOrder[k] \notin present THEN ZoneColumns(present, k + 1)
    ELSE <<<<ZoneOrder[k], "FGM">>, <<ZoneOrder[k], "FGA">>, <<ZoneOrder[k], "FG", "PCT">>>>
         \o ZoneColumns(present, k + 1)

\* another row of the same table: every number one higher, NaN where it was MaxStat
Shifted(st) ==
    [z \in DOMAIN st |->
        [k \in 1..2 |-> IF IsNaN(st[z][k]) THEN Num(0)
                        ELSE IF st[z][k][1] = MaxStat THEN NaN
                        ELSE Num(st[z][k][1] + 1)]]

ZoneSet == {ZoneOrder[k] : k \in 1..Len(ZoneOrder)}

\* a wide table of the model: the PLAYER_NAME column, the three columns of
\* each zone of present; a first row named n1 with the cells st and, unless
\* n2 is "", a second row named n2
NamedTable(present, st, n1, n2) ==
    [columns |-> <<PLAYER_NAME>> \o ZoneColumns(present, 1),
     rows |-> <<<<n1>> \o ZoneCells(present, st, 1)>>
              \o (IF n2 = "" THEN <<>>
                  ELSE <<<<n2>> \o ZoneCells(present, Shifted(st), 1)>>)]

\* a wide table without the PLAYER_NAME column
NamelessTable(present, st) ==
    [columns |-> ZoneColumns(present, 1), rows |-> <<ZoneCells(present, st, 1)>>]

\* a cell of the totals as the upstream sends it: a number, nothing, or text
RawCells == {Num(n) : n \in 0..MaxStat} \cup {NaN, <<"n/a">>}

\* the rows of totals of the model
RawRows ==
    {[PLAYER_NAME |-> <<"A">>, PLAYER_ID |-> Num(1), GP |-> gp,
      MIN |-> Num(MaxStat), PTS |-> Num(MaxStat),
      FGM |-> fg[1], FGA |-> fg[2], FG3M |-> fg3[1], FG3A |-> fg3[2],
      FTM |-> ft[1], FTA |-> ft[2]] :
        gp \in {Num(0), Num(MaxStat)},
        fg \in RawCells \X RawCells, fg3 \in RawCells \X RawCells,
        ft \in {<<Num(MaxStat), Num(0)>>, <<Num(1), Num(MaxStat)>>, <<NaN, <<"n/a">>>>}}

Fractions == {<<n, d>> : n \in 0..MaxDen, d \in 1..MaxDen} \cup {NaN}

Pending == [state |-> "pending", frame |-> <<>>]
PendingRow == [state |-> "pending", row |-> <<>>]

DataIdle ==
    /\ kind = "none"
    /\ shots_all = [columns |-> <<>>, rows |-> <<>>] /\ player_name = ""
    /\ zout = Pending
    /\ raw_stats = <<>> /\ sout = PendingRow
    /\ cval = NaN /\ cout = "pending"

(***************************************************************************)
(* The script: every interaction reruns it from the top                    *)
(***************************************************************************)
LoaderTries == 3        \* with_retry(_call, tries=3)
DefaultBaseSleep == 1   \* base_sleep=1.0

TickStep == 900         \* the clock is observed every TickStep seconds
BaseYear == 2025        \* today is in BaseYear .. BaseYear + NumYears - 1
NumYears == 1

NotServed == [fn |-> "none", how |-> "none", age |-> 0]

DetectIdle == cands = <<>> /\ ci = 0 /\ probed = <<>>
DetectLeave == cands' = <<>> /\ ci' = 0 /\ probed' = <<>>

AppIdle ==
    /\ today = [year |-> 0, month |-> 0]
    /\ pc = "off" /\ clicked = FALSE /\ TARGET_SEASON = "None"
    /\ DetectIdle /\ detRaised = FALSE
    /\ seasonCache = NoEntry /\ cache = EmptyCache
    /\ net = "none" /\ served = NotServed

\* line 74: TARGET_SEASON = safe_detect_latest_season(), through its cache
ScriptStart ==
    /\ pc = "start"
    /\ net' = "none"
    /\ IF Fresh(seasonCache)
       THEN /\ TARGET_SEASON' = seasonCache.v
            /\ pc' = "sidebar"
            /\ DetectLeave
       ELSE /\ cands' = candidate_seasons_latest_first(today, Lookback)
            /\ ci' = 1
            /\ probed' = <<>>
            /\ pc' = "detect"
            /\ UNCHANGED TARGET_SEASON
    /\ detRaised' = FALSE
    /\ UNCHANGED <<today, clicked, seasonCache, cache, served, retryVars, fmtVars, dataVars>>

\* one iteration of the for of safe_detect_latest_season, the probe of
\* cands[ci] ending as res
Probe(res) ==
    /\ pc = "detect" /\ ci <= Len(cands)
    /\ net' = "probe"
    /\ probed' = Append(probed, [s |-> cands[ci], res |-> res])
    /\ IF ProbeReturns(res)
       THEN /\ seasonCache' = [v |-> cands[ci], age |-> 0]
            /\ TARGET_SEASON' = cands[ci]
            /\ pc' = "sidebar"
            /\ UNCHANGED <<ci, detRaised>>
       ELSE IF ProbeHandler(res) = "continue"
       THEN /\ ci' = ci + 1
            /\ UNCHANGED <<seasonCache, TARGET_SEASON, pc, detRaised>>
       ELSE \* the exception leaves the function; lines 75-76 catch it
            /\ detRaised' = TRUE
            /\ TARGET_SEASON' = DEFAULT_FALLBACK_SEASON
            /\ pc' = "sidebar"
            /\ UNCHANGED <<ci, seasonCache>>
    /\ UNCHANGED <<today, clicked, cands, cache, served, retryVars, fmtVars, dataVars>>

\* the for is exhausted: return DEFAULT_FALLBACK_SEASON
DetectFallback ==
    /\ pc = "detect" /\ ci > Len(cands)
    /\ seasonCache' = [v |-> DEFAULT_FALLBACK_SEASON, age |-> 0]
    /\ TARGET_SEASON' = DEFAULT_FALLBACK_SEASON
    /\ pc' = "sidebar"
    /\ net' = "none"
    /\ UNCHANGED <<today, clicked, cands, ci, probed, detRaised, cache, served,
                   retryVars, fmtVars, dataVars>>

\* lines 248-252: the Refresh button clears every cache and reruns
Sidebar ==
    /\ pc = "sidebar"
    /\ net' = "none"
    /\ DetectLeave
    /\ IF clicked
       THEN /\ seasonCache' = NoEntry
            /\ cache' = ClearedCache(cache)
            /\ clicked' = FALSE
            /\ pc' = "start"
       ELSE /\ pc' = "load_main"
            /\ UNCHANGED <<seasonCache, cache, clicked>>
    /\ UNCHANGED <<today, TARGET_SEASON, detRaised, served, retryVars, fmtVars, dataVars>>

\* what the upstream returns to loader f for season s
Frame(f, s) == <<f, s>>

PcOf(f) == IF f = "main" THEN "load_main" ELSE "load_shot"
InOf(f) == IF f = "main" THEN "in_main" ELSE "in_shot"
AfterOf(f) == IF f = "main" THEN "load_shot" ELSE "render"

\* lines 263-264: load_main_stats(TARGET_SEASON), load_shot_data(TARGET_SEASON):
\* the cached value, or the body of the function up to its with_retry
LoadRequest(f) ==
    /\ pc = PcOf(f)
    /\ net' = "none"
    /\ IF Fresh(Entry(f, TARGET_SEASON))
       THEN /\ served' = [fn |-> f, how |-> "hit", age |-> Entry(f, TARGET_SEASON).age]
            /\ pc' = AfterOf(f)
            /\ UNCHANGED retryVars
       ELSE /\ served' = [fn |-> f, how |-> "miss", age |-> 0]
            /\ pc' = InOf(f)
            /\ RetryEnter(LoaderTries, DefaultBaseSleep)
    /\ UNCHANGED <<today, clicked, TARGET_SEASON, cands, ci, probed, detRaised,
                   seasonCache, cache, fmtVars, dataVars>>

\* _call() inside with_retry: one upstream request of loader f
LoadAttempt(f) ==
    /\ pc = InOf(f)
    /\ \/ RetryCallOk(Frame(f, TARGET_SEASON))
       \/ RetryCallFail("timeout")
    /\ net' = f
    /\ UNCHANGED <<today, pc, clicked, TARGET_SEASON, cands, ci, probed, detRaised,
                   seasonCache, cache, served, fmtVars, dataVars>>

\* with_retry gives up inside loader f
LoadGiveUp(f) ==
    /\ pc = InOf(f)
    /\ RetryRaise
    /\ net' = "none"
    /\ UNCHANGED <<today, pc, clicked, TARGET_SEASON, cands, ci, probed, detRaised,
                   seasonCache, cache, served, fmtVars, dataVars>>

\* loader f returns: st.cache_data keeps the result under the season
LoadReturn(f) ==
    /\ pc = InOf(f) /\ rpc = "returned"
    /\ cache' = [cache EXCEPT ![f] = Store(@, TARGET_SEASON, ret)]
    /\ pc' = AfterOf(f)
    /\ net' = "none"
    /\ RetryLeave
    /\ UNCHANGED <<today, clicked, TARGET_SEASON, cands, ci, probed, detRaised,
                   seasonCache, served, fmtVars, dataVars>>

\* lines 265-268: the error of a loader ends the run (st.stop), nothing is cached
LoadFail(f) ==
    /\ pc = InOf(f) /\ rpc = "raised"
    /\ pc' = "stopped"
    /\ net' = "none"
    /\ RetryLeave
    /\ UNCHANGED <<today, clicked, TARGET_SEASON, cands, ci, probed, detRaised,
                   seasonCache, cache, served, fmtVars, dataVars>>

\* a widget changes (team, player): Streamlit reruns the script
Interact ==
    /\ pc \in {"render", "stopped"}
    /\ pc' = "start"
    /\ clicked' = FALSE
    /\ net' = "none"
    /\ UNCHANGED <<today, TARGET_SEASON, cands, ci, probed, detRaised,
                   seasonCache, cache, served, retryVars, fmtVars, dataVars>>

\* the user clicks "Refresh now": a rerun in which the button is True
ClickRefresh ==
    /\ pc \in {"render", "stopped"}
    /\ pc' = "start"
    /\ clicked' = TRUE
    /\ net' = "none"
    /\ UNCHANGED <<today, TARGET_SEASON, cands, ci, probed, detRaised,
                   seasonCache, cache, served, retryVars, fmtVars, dataVars>>

\* TickStep seconds pass
Tick ==
    /\ seasonCache' = AgedEntry(seasonCache, TickStep)
    /\ cache' = [f \in Loaders |-> Aged(cache[f], TickStep)]
    /\ <<seasonCache', cache'>> # <<seasonCache, cache>>
    /\ net' = "none"
    /\ UNCHANGED <<today, pc, clicked, TARGET_SEASON, cands, ci, probed, detRaised,
                   served, retryVars, fmtVars, dataVars>>

InitApp ==
    /\ today \in [year : {BaseYear}, month : {9, 10}]
    /\ pc = "start" /\ clicked = FALSE /\ TARGET_SEASON = "None"
    /\ DetectIdle /\ detRaised = FALSE
    /\ seasonCache = NoEntry /\ cache = EmptyCache
    /\ net = "none" /\ served = NotServed
    /\ RetryIdle
    /\ fyear = 0 /\ fout = ""
    /\ DataIdle

NextApp ==
    \/ ScriptStart
    \/ \E res \in {"rows", "raise"} : Probe(res)
    \/ DetectFallback
    \/ Sidebar
    \/ \E f \in Loaders : LoadRequest(f)
    \/ \E f \in Loaders : LoadAttempt(f)
    \/ \E f \in Loaders : LoadGiveUp(f)
    \/ \E f \in Loaders : LoadReturn(f)
    \/ \E f \in Loaders : LoadFail(f)
    \/ Interact
    \/ ClickRefresh
    \/ Tick

Spec == InitApp /\ [][NextApp]_vars

(***************************************************************************)
(* One cold call of safe_detect_latest_season, on any day                  *)
(***************************************************************************)
InitSeason ==
    /\ today \in [year : BaseYear..(BaseYear + NumYears - 1), month : 1..12]
    /\ pc = "start" /\ clicked = FALSE /\ TARGET_SEASON = "None"
    /\ DetectIdle /\ detRaised = FALSE
    /\ seasonCache = NoEntry /\ cache = EmptyCache
    /\ net = "none" /\ served = NotServed
    /\ RetryIdle
    /\ fyear = 0 /\ fout = ""
    /\ DataIdle

NextSeason ==
    \/ ScriptStart
    \/ \E res \in ProbeResults : Probe(res)
    \/ DetectFallback

SpecSeason == InitSeason /\ [][NextSeason]_vars

FmtIdle == fyear = 0 /\ fout = ""

InitRetry ==
    /\ \E n \in 1..MaxTries, b \in 1..MaxBase :
          /\ rpc = "loop" /\ tries = n /\ base_sleep = b /\ i = 0
          /\ last_err = "None" /\ ret = "None" /\ raised = "None"
          /\ calls = 0 /\ sleeps = <<>> /\ log = <<>>
    /\ FmtIdle
    /\ AppIdle
    /\ DataIdle

NextRetry ==
    \/ \E v \in Vals : RetryCallOk(v) /\ UNCHANGED <<fmtVars, appVars, dataVars>>
    \/ \E e \in Errs : RetryCallFail(e) /\ UNCHANGED <<fmtVars, appVars, dataVars>>
    \/ RetryRaise /\ UNCHANGED <<fmtVars, appVars, dataVars>>

SpecRetry == InitRetry /\ [][NextRetry]_vars

(***************************************************************************)
(* season_str_from_year on its own                                         *)
(***************************************************************************)
InitFmt ==
    /\ fyear \in FirstYear..(FirstYear + YearSpan)
    /\ fout = ""
    /\ RetryIdle
    /\ AppIdle
    /\ DataIdle

Format ==
    /\ fout = ""
    /\ fout' = season_str_from_year(fyear)
    /\ UNCHANGED <<fyear, retryVars, appVars, dataVars>>

NextFmt == Format

SpecFmt == InitFmt /\ [][NextFmt]_vars

(***************************************************************************)
(* The data transforms as a state machine                                  *)
(***************************************************************************)
InitData ==
    /\ RetryIdle /\ FmtIdle /\ AppIdle
    /\ zout = Pending /\ sout = PendingRow /\ cout = "pending"
    /\ \/ /\ kind = "zones"
          /\ \E present \in SUBSET ZoneSet :
             \E st \in [present -> StatCells \X StatCells] :
                \/ \E n1 \in {"A", "B"}, n2 \in {"", "A", "B"} :
                      shots_all = NamedTable(present, st, n1, n2)
                \/ shots_all = NamelessTable(present, st)
          /\ player_name = "A"
          /\ raw_stats = <<>> /\ cval = NaN
       \/ /\ kind = "stats"
          /\ raw_stats \in RawRows
          /\ shots_all = [columns |-> <<>>, rows |-> <<>>] /\ player_name = ""
          /\ cval = NaN
       \/ /\ kind = "color"
          /\ cval \in Fractions
          /\ shots_all = [columns |-> <<>>, rows |-> <<>>] /\ player_name = ""
          /\ raw_stats = <<>>

\* line 331: zp = get_zones_for_player(player_sel, shots_all)
CallZones ==
    /\ kind = "zones" /\ zout.state = "pending"
    /\ zout' = get_zones_for_player(player_name, shots_all)
    /\ UNCHANGED <<kind, shots_all, player_name, raw_stats, sout, cval, cout,
                   retryVars, fmtVars, appVars>>

\* the body of load_main_stats after the fetch
CallStats ==
    /\ kind = "stats" /\ sout.state = "pending"
    /\ sout' = [state |-> "returned", row |-> main_stats_row(raw_stats)]
    /\ UNCHANGED <<kind, shots_all, player_name, zout, raw_stats, cval, cout,
                   retryVars, fmtVars, appVars>>

\* .applymap(fg_color, subset=["FG%"]) on one cell
CallColor ==
    /\ kind = "color" /\ cout = "pending"
    /\ cout' = fg_color(cval)
    /\ UNCHANGED <<kind, shots_all, player_name, zout, raw_stats, sout, cval,
                   retryVars, fmtVars, appVars>>

NextData == CallZones \/ CallStats \/ CallColor

SpecData == InitData /\ [][NextData]_vars

(***************************************************************************)
(* C1 - success on attempt k                                               *)
(***************************************************************************)
AllFailedBefore(k) == \A j \in 1..(k - 1) : ~log[j].ok

\* C1: when fn fails on attempts 1..k-1 and succeeds on attempt k, with_retry
\* returns the result of attempt k, fn has been invoked exactly k times and
\* exactly k-1 delays were performed, the j-th lasting base_sleep * j.
C1_SuccessOnAttemptK ==
    rpc = "returned" =>
        LET k == Len(log) IN
        /\ k \in 1..tries
        /\ log[k].ok /\ AllFailedBefore(k)
        /\ ret = log[k].v
        /\ calls = k
        /\ Len(sleeps) = k - 1
        /\ \A j \in 1..(k - 1) : sleeps[j] = base_sleep * j

\* two failures, then the third attempt of tries = 3 succeeds: two delays
C1_Witness ==
    /\ rpc = "returned" /\ tries = 3 /\ Len(log) = 3
    /\ ~log[1].ok /\ ~log[2].ok /\ log[3].ok
    /\ Len(sleeps) = 2

(***************************************************************************)
(* C2 - failure only after all attempts                                    *)
(***************************************************************************)
AllAttemptsFailed == Len(log) = tries /\ \A j \in 1..tries : ~log[j].ok

\* C2: with_retry raises if and only if fn failed on each of tries
\* consecutive attempts; fn is never invoked more than tries times and is
\* invoked exactly tries times when with_retry raises; the error raised is
\* the one of the last attempt.
C2_FailsOnlyAfterExhaustion ==
    /\ calls <= tries
    /\ rpc = "raised" =>
          /\ AllAttemptsFailed
          /\ calls = tries
          /\ raised = log[tries].v
    /\ rpc = "returned" => ~AllAttemptsFailed
    /\ (AllAttemptsFailed /\ rpc # "raised") => (rpc = "loop" /\ ENABLED RetryRaise)

\* three failures with different errors: the last one is raised
C2_Witness ==
    /\ rpc = "raised" /\ tries = 3 /\ calls = 3
    /\ log[1].v # log[3].v
    /\ raised = log[3].v

(***************************************************************************)
(* C3 - the season fallback                                                *)
(***************************************************************************)
\* m in 0..99 written with exactly two digits
TwoDigits(m) == DigitChar(m \div 10) \o DigitChar(m % 10)

\* the identifier of the season that starts in year y
SeasonId(y) == ToString(y) \o "-" \o TwoDigits((y + 1) % 100)

ExpectedStart == IF today.month >= 10 THEN today.year ELSE today.year - 1

\* the candidates the resolver is to try, in order
ExpectedCandidates ==
    [k \in 1..8 |-> SeasonId(ExpectedStart - (k - 1))]

AllProbesFailed ==
    Len(probed) = 8 /\ \A k \in 1..8 : probed[k].res # "rows"

\* C3: when the probe of every candidate fails (raises, or returns an empty
\* or missing table) safe_detect_latest_season returns
\* DEFAULT_FALLBACK_SEASON; it never lets an error out; TARGET_SEASON is
\* always a probed candidate or the fallback.
C3_SeasonFallback ==
    /\ ~detRaised
    /\ (pc = "detect" /\ AllProbesFailed) => ENABLED DetectFallback
    /\ pc = "sidebar" =>
          /\ TARGET_SEASON # "None"
          /\ AllProbesFailed => TARGET_SEASON = DEFAULT_FALLBACK_SEASON
          /\ \/ TARGET_SEASON = DEFAULT_FALLBACK_SEASON
             \/ \E k \in 1..Len(probed) : probed[k].s = TARGET_SEASON

\* eight probes that raise, come back empty or come back None
C3_Witness ==
    /\ pc = "sidebar" /\ AllProbesFailed
    /\ \E k \in 1..8 : probed[k].res = "raise"
    /\ \E k \in 1..8 : probed[k].res = "empty"
    /\ \E k \in 1..8 : probed[k].res = "none"
    /\ TARGET_SEASON = "2025-26"
    /\ "2025-26" \notin {probed[k].s : k \in 1..8}

(***************************************************************************)
(* C4 - the order of the probes                                            *)
(***************************************************************************)
\* C4: the candidates are probed most recent first, start_year - i for
\* i = 0..7 with start_year the current year from October on and the year
\* before otherwise; the first candidate whose probe has rows is returned; a
\* probe that raises advances to the next candidate like an empty one; no
\* candidate is probed after the one returned.
C4_ProbeOrder ==
    LET n == Len(probed)
        expected == ExpectedCandidates
    IN
    /\ n <= 8
    /\ \A k \in 1..n : probed[k].s = expected[k]
    /\ \A k \in 1..(n - 1) : probed[k].res # "rows"
    /\ pc = "detect" => ci = n + 1
    /\ (n > 0 /\ probed[n].res = "rows") =>
          pc = "sidebar" /\ TARGET_SEASON = expected[n]
    /\ (pc = "sidebar" /\ n > 0 /\ probed[n].res # "rows") => n = 8

\* in October: a probe raises, the next is empty, the third has rows
C4_Witness ==
    /\ today.month = 10 /\ today.year = 2025
    /\ pc = "sidebar" /\ Len(probed) = 3
    /\ probed[1].res = "raise" /\ probed[2].res = "empty" /\ probed[3].res = "rows"
    /\ TARGET_SEASON = "2023-24"

(***************************************************************************)
(* C5 - the fetch cache                                                    *)
(***************************************************************************)
\* loader f returned a result for season s less than 30 minutes ago and the
\* caches were not cleared since
WithinWindow(f, s) == s \in DOMAIN cache[f] /\ cache[f][s].age < 1800

\* C5: a request of load_main_stats or load_shot_data for a season whose
\* result was returned within the last 30 minutes is answered from the cache
\* and no upstream request of that loader is made; one is made only once the
\* window has expired or the caches were cleared.
C5_CachedWithinWindow ==
    [][\A f \in Loaders :
          /\ net' = f => ~WithinWindow(f, TARGET_SEASON)
          /\ (pc = PcOf(f) /\ pc' # pc /\ WithinWindow(f, TARGET_SEASON)) =>
                /\ served' = [fn |-> f, how |-> "hit", age |-> cache[f][TARGET_SEASON].age]
                /\ pc' = AfterOf(f)
                /\ net' = "none"
                /\ cache' = cache]_vars

\* a rerun 15 minutes after the fetch is answered from the cache
C5_Witness ==
    /\ pc = "render" /\ served.how = "hit" /\ served.age > 0
    /\ WithinWindow("main", TARGET_SEASON) /\ WithinWindow("shot", TARGET_SEASON)

(***************************************************************************)
(* What the zone claims read off the input table                           *)
(***************************************************************************)
HasNameColumn == \E j \in 1..Len(shots_all.columns) : shots_all.columns[j] = PLAYER_NAME

\* the rows of the player asked for, by position (the name is the first cell)
MatchingRows == {k \in 1..Len(shots_all.rows) : shots_all.rows[k][1] = player_name}

FirstMatchingRow ==
    shots_all.rows[CHOOSE k \in MatchingRows : \A m \in MatchingRows : k <= m]

\* the zones the table has columns for
TableZones == {z \in ZoneSet : \E j \in 1..Len(shots_all.columns) :
                                   shots_all.columns[j] = <<z, "FGA">>}

\* the cell of the first matching row in column <zone>_<metric>; 0 for NaN
InputStat(z, metric) ==
    LET j == CHOOSE j \in 1..Len(shots_all.columns) : shots_all.columns[j] = <<z, metric>>
        c == FirstMatchingRow[j]
    IN  IF IsNum(c) THEN c ELSE Num(0)

RetainedZones == TableZones \ {"Backcourt"}

RECURSIVE TotalAttempts(_)
\* the attempts of the first matching row over the zones zs
TotalAttempts(zs) ==
    IF zs = {} THEN Num(0)
    ELSE LET z == CHOOSE z \in zs : TRUE
         IN  Add(InputStat(z, "FGA"), TotalAttempts(zs \ {z}))

RECURSIVE SumShares(_)
SumShares(frame) ==
    IF frame = <<>> THEN Num(0) ELSE Add(frame[1].ShotShare, SumShares(Tail(frame)))

(***************************************************************************)
(* C6 - get_zones_for_player never throws                                  *)
(***************************************************************************)
\* C6: get_zones_for_player never throws; it returns an empty result when
\* the table has no PLAYER_NAME column or no row of the player, and the zone
\* records of the first matching row otherwise, also when that row has no
\* shot column or only Backcourt columns.
C6_NeverThrows ==
    zout.state # "pending" =>
        /\ zout.state = "returned"
        /\ IF ~HasNameColumn \/ MatchingRows = {}
           THEN zout.frame = <<>>
           ELSE /\ {zout.frame[k].zone : k \in 1..Len(zout.frame)}
                     = {<<z>> : z \in RetainedZones}
                /\ \A k \in 1..Len(zout.frame) :
                      /\ Same(zout.frame[k].FGM, InputStat(zout.frame[k].zone[1], "FGM"))
                      /\ Same(zout.frame[k].FGA, InputStat(zout.frame[k].zone[1], "FGA"))

(***************************************************************************)
(* C7 - the zero-attempt guard                                             *)
(***************************************************************************)
PctColumns == {<<"FG_PCT", "FGM", "FGA">>, <<"FG3_PCT", "FG3M", "FG3A">>,
               <<"FT_PCT", "FTM", "FTA">>}

\* C7: in the record of load_main_stats FG_PCT, FG3_PCT and FT_PCT, and in
\* every zone record of get_zones_for_player FG_PCT and PTS_per_shot, are
\* makes/attempts (points/attempts) when attempts > 0 and undefined, never
\* 0, when attempts = 0, whatever percentage the source carried.
C7_ZeroAttemptGuard ==
    /\ sout.state = "returned" =>
          \A c \in PctColumns :
             LET makes == raw_stats[c[2]]
                 attempts == raw_stats[c[3]]
                 pct == sout.row[c[1]]
             IN  IF IsNum(attempts) /\ attempts[1] > 0
                 THEN IF IsNum(makes) THEN IsNum(pct) /\ Same(pct, Div(makes, attempts))
                      ELSE IsNaN(pct)
                 ELSE IsNaN(pct)
    /\ zout.state = "returned" =>
          \A k \in 1..Len(zout.frame) :
             LET r == zout.frame[k]
                 makes == InputStat(r.zone[1], "FGM")
                 attempts == InputStat(r.zone[1], "FGA")
             IN  IF attempts[1] > 0
                 THEN /\ IsNum(r.FG_PCT) /\ Same(r.FG_PCT, Div(makes, attempts))
                      /\ IsNum(r.PTS_per_shot) /\ Same(r.PTS_per_shot, Div(r.PTS, attempts))
                 ELSE IsNaN(r.FG_PCT) /\ IsNaN(r.PTS_per_shot)

\* a zone without attempts, sent with a percentage of 0, beside one with attempts
C7_Witness ==
    /\ zout.state = "returned" /\ Len(zout.frame) = 2
    /\ zout.frame[1].FGA = Num(0) /\ IsNaN(zout.frame[1].FG_PCT)
    /\ shots_all.rows[1][4] = Num(0)
    /\ zout.frame[2].FGA = Num(2) /\ Same(zout.frame[2].FG_PCT, <<1, 2>>)
    /\ Same(zout.frame[2].PTS_per_shot, <<3, 2>>)

(***************************************************************************)
(* C8 - the shot share                                                     *)
(***************************************************************************)
\* C8: the shot share of each retained zone is its attempts over the
\* attempts of all the retained zones, Backcourt left out of the rows and of
\* the sum: the shares sum to 1 when that total is positive, and every share
\* is undefined when it is 0.
C8_ShotShare ==
    (zout.state = "returned" /\ zout.frame # <<>>) =>
        LET total == TotalAttempts(RetainedZones) IN
        /\ \A k \in 1..Len(zout.frame) : zout.frame[k].zone # BACKCOURT
        /\ IF total[1] > 0
           THEN /\ \A k \in 1..Len(zout.frame) :
                      Same(zout.frame[k].ShotShare,
                           Div(InputStat(zout.frame[k].zone[1], "FGA"), total))
                /\ Same(SumShares(zout.frame), Num(1))
           ELSE \A k \in 1..Len(zout.frame) : IsNaN(zout.frame[k].ShotShare)

\* two retained zones with 1 and 2 attempts beside a Backcourt with attempts
C8_Witness ==
    /\ zout.state = "returned" /\ Len(zout.frame) = 2
    /\ "Backcourt" \in TableZones /\ InputStat("Backcourt", "FGA") = Num(2)
    /\ Same(zout.frame[1].ShotShare, <<1, 3>>)
    /\ Same(zout.frame[2].ShotShare, <<2, 3>>)

(***************************************************************************)
(* C9 - the colour bands                                                   *)
(***************************************************************************)
\* C9: fg_color puts a percentage in exactly one band: undefined has no
\* colour, below 30% is red, from 30% inclusive to 40% exclusive is yellow,
\* above 40% is green, so that 30% and 40% fall where the caption
\* "Red < 30%, Yellow 30-40%, Green > 40%" puts them: neither is green.
C9_ColorBands ==
    cout # "pending" =>
        IF IsNaN(cval) THEN cout = ""
        ELSE /\ cout = "background-color: red"    <=> cval[1] * 100 < 30 * cval[2]
             /\ cout = "background-color: green"  <=> cval[1] * 100 > 40 * cval[2]
             /\ cout = "background-color: yellow" <=>
                   (cval[1] * 100 >= 30 * cval[2] /\ cval[1] * 100 < 40 * cval[2])

(***************************************************************************)
(* C10 - the season identifier                                             *)
(***************************************************************************)
\* C10: season_str_from_year(Y) is the decimal form of Y, a hyphen, and
\* (Y + 1) mod 100 written as exactly two zero-padded digits.
C10_SeasonFormat ==
    fout # "" => fout = ToString(fyear) \o "-" \o TwoDigits((fyear + 1) % 100)

\* 1999 gives "1999-00" 
C10_Witness == fyear = 1999 /\ fout = "1999-00"

====
